---- MODULE Spec2Model ----
(***************************************************************************)
(* Model of tpm2-totp.c: the command-line front end of tpm2-totp.          *)
(*   - base32enc   : the base32 encoder (lines 132-167)                    *)
(*   - qrencode    : the ANSI rasterizer of a QR matrix (lines 169-200)    *)
(*   - parse_opts  : option parsing (lines 59-130)                         *)
(*   - main        : the five commands (lines 213-312)                     *)
(* Text is modelled as a sequence of one-character strings, one element    *)
(* per byte; "ESC" stands for the byte \033 and "\n" for the line feed.    *)
(***************************************************************************)
EXTENDS Integers, Sequences, FiniteSets, TLC

VARIABLES
    nv,          \* the TPM NV slots: index -> sealed blob or Empty
    nvAtStart,   \* ghost: nv as it was when the running process started
    runs,        \* number of processes started so far
    pc,          \* position of the running process in main
    argv,        \* the command line of the running process (argv[1..])
    opt,         \* the static struct opt
    calls,       \* ghost: calls made by the running process, in order
    stdout,      \* bytes written to stdout by the running process
    exitStatus,  \* exit status of the process, NoStatus while it runs
    mem,         \* heap buffers of main: "unset", "live" or "freed"
    val,         \* contents of main's buffers
    faults,      \* ghost: misuses of main's buffers by the running process
    b32_in,      \* base32enc under test: the input bytes
    b32_out,     \* base32enc under test: the result, called = FALSE before the call
    qr_in,       \* rasterizer under test: the QRcode (width, data)
    qr_out       \* rasterizer under test: the result, called = FALSE before the call

vars == <<nv, nvAtStart, runs, pc, argv, opt, calls, stdout, exitStatus, mem, val,
          faults, b32_in, b32_out, qr_in, qr_out>>

mainVars == <<nv, nvAtStart, runs, pc, argv, opt, calls, stdout, exitStatus, mem, val,
              faults>>
b32Vars == <<b32_in, b32_out>>
qrVars == <<qr_in, qr_out>>

----------------------------------------------------------------------------
(* Bounds of the model *)

\* longest input handed to base32enc under test
MaxLen == 6
\* widest QR matrix handed to the rasterizer under test
MaxWidth == 2
\* number of processes run one after the other
MaxRuns == 3

\* byte values used as input bytes (uint8_t)
ByteAlphabet == {0, 90, 165, 255}
\* module values of QRcode->data (unsigned char; bit 0 is the module colour)
ModuleValues == {0, 1, 2, 3}

RECURSIVE SeqsUpTo(_, _)
SeqsUpTo(S, n) ==
    IF n = 0 THEN {<<>>}
    ELSE LET shorter == SeqsUpTo(S, n - 1)
         IN  shorter \cup {Append(s, x) : s \in {t \in shorter : Len(t) = n - 1}, x \in S}

----------------------------------------------------------------------------
(* base32enc, lines 132-167 *)

\* static unsigned char base32[] (line 134)
base32 == <<"A","B","C","D","E","F","G","H","I","J","K","L","M","N","O","P",
            "Q","R","S","T","U","V","W","X","Y","Z","2","3","4","5","6","7">>

\* bitwise or of two non-negative ints, as the C operator |
RECURSIVE BitOr(_, _)
BitOr(a, b) ==
    IF a = 0 THEN b
    ELSE IF b = 0 THEN a
    ELSE (IF (a % 2 = 1) \/ (b % 2 = 1) THEN 1 ELSE 0) + 2 * BitOr(a \div 2, b \div 2)

\* in[j]: a read at or past in_size is outside the caller's buffer and
\* yields whatever byte lies there (oob)
InAt(in, j, oob) == IF j < Len(in) THEN in[j + 1] ELSE oob

\* the loop state: r (cells written so far, r[k] is r[k+1] here), i, j,
\* rd = indices of in read, wr = indices of r written
B32Start == [r |-> <<>>, i |-> 0, j |-> 0, rd |-> {}, wr |-> {}]

\* r[i++] = v
B32Set(s, v) ==
    [s EXCEPT !.r = IF s.i < Len(s.r) THEN [s.r EXCEPT ![s.i + 1] = v]
                    ELSE Append(s.r, v),
              !.i = s.i + 1,
              !.wr = @ \cup {s.i}]

\* r[i++] = v where the source has |=
B32Or_Assign(s, v) ==
    [s EXCEPT !.r = [s.r EXCEPT ![s.i + 1] = v],
              !.i = s.i + 1,
              !.wr = @ \cup {s.i}]

\* r[i++] |= v
B32Or(s, v) ==
    [s EXCEPT !.r = [s.r EXCEPT ![s.i + 1] = BitOr(@, v)],
              !.i = s.i + 1,
              !.wr = @ \cup {s.i}]

\* the read of in[j] is recorded
B32Read(s) == [s EXCEPT !.rd = @ \cup {s.j}]

\* ++j
B32NextByte(s) == [s EXCEPT !.j = s.j + 1]

\* else i--
B32Back(s) == [s EXCEPT !.i = s.i - 1]

\* the writes of one of the five parts of the loop body, each handling the
\* input byte x = in[j]: lines 141-142, 144-146, 148-149, 151-153, 155-156
B32Part(s, x, part) ==
    CASE part = 0 -> B32Set(B32Set(s, (x \div 8) % 32), (x * 4) % 32)
      [] part = 1 -> B32Set(B32Set(B32Or(s, (x \div 64) % 32), (x \div 2) % 32),
                            (x * 16) % 32)
      [] part = 2 -> B32Set(B32Or(s, (x \div 16) % 32), (x * 2) % 32)
      [] part = 3 -> B32Set(B32Set(B32Or(s, (x \div 128) % 32), (x \div 4) % 32),
                            (x * 8) % 32)
      [] OTHER    -> B32Set(B32Or(s, (x \div 32) % 32), x % 32)

\* while (1) { ... } of lines 140-158, entered at the given part of its body:
\* parts 1..4 are reached through the "else i--" of the part before, and
\* every part ends with "if (++j >= in_size) break"
RECURSIVE B32Loop(_, _, _, _, _)
B32Loop(in, in_size, oob, s, part) ==
    LET t == B32NextByte(B32Part(B32Read(IF part = 0 THEN s ELSE B32Back(s)),
                                 InAt(in, s.j, oob), part))
    IN  IF t.j >= in_size THEN t
        ELSE B32Loop(in, in_size, oob, t, (part + 1) % 5)

\* out_size rounded with + 1 in place of the ceiling
B32OutSize_PlusOne(in_size) == (in_size \div 5 + 1) * 8

\* size_t out_size = ((in_size + 4) / 5) * 8  (line 137)
B32OutSize(in_size) == ((in_size + 4) \div 5) * 8

\* the whole function: text is the returned C string (the bytes before the
\* terminating NUL), alloc the size handed to malloc
base32enc(in, in_size, oob) ==
    LET out_size == B32OutSize(in_size)
        s == B32Loop(in, in_size, oob, B32Start, 0)
        symbols == [k \in 1..s.i |-> base32[s.r[k] + 1]]
        npad == IF s.i < out_size THEN out_size - s.i ELSE 0
        padded == symbols \o [k \in 1..npad |-> "="]
    IN  [called |-> TRUE,
         text |-> padded,
         out_size |-> out_size,
         alloc |-> out_size + 1,
         rd |-> s.rd,
         wr |-> s.wr \cup (s.i .. (s.i + npad))]

----------------------------------------------------------------------------
(* qrencode, lines 169-200 *)

\* "\033[47m%*s\033[0m\n", the format of a margin row, as written in the source
FmtMargin == <<"ESC","[","4","7","m","%","*","s","ESC","[","0","m","\n">>
\* "\033[47m  "
FmtLight == <<"ESC","[","4","7","m"," "," ">>
\* "\033[40m  "
FmtDark == <<"ESC","[","4","0","m"," "," ">>
\* "\033[47m  \033[0m\n"
FmtRowEnd == <<"ESC","[","4","7","m"," "," ","ESC","[","0","m","\n">>

\* what sprintf produces for "%*s" with a field width and the empty string
Blanks(width) == [k \in 1..width |-> " "]

\* a margin row one module short: field width 2*(qrcode->width+1)
SprintfMargin_Short(width) ==
    <<"ESC","[","4","7","m">> \o Blanks(2 * (width + 1)) \o <<"ESC","[","0","m","\n">>

\* sprintf(..., "\033[47m%*s\033[0m\n", 2*(qrcode->width+2), "")
SprintfMargin(width) ==
    <<"ESC","[","4","7","m">> \o Blanks(2 * (width + 2)) \o <<"ESC","[","0","m","\n">>

\* the size without the left margin block of each data row
QrAllocSize_NoLeftMargin(width) ==
    2 * ((width + 2) * 2 - 2 + Len(FmtMargin))
    + width * (Len(FmtLight) * width + Len(FmtRowEnd))
    + 1

\* the argument of malloc, lines 176-182
QrAllocSize(width) ==
    2 * ((width + 2) * 2 - 2 + Len(FmtMargin))
    + width * (Len(FmtLight) * (width + 1) + Len(FmtRowEnd))
    + 1

\* the inner loop testing data[...] != 0 in place of data[...] & 0x01
RECURSIVE QrCells_NonZero(_, _, _)
QrCells_NonZero(qrcode, y, x) ==
    IF x < qrcode.width
    THEN (IF qrcode.data[y * qrcode.width + x] # 0 THEN FmtDark ELSE FmtLight)
         \o QrCells_NonZero(qrcode, y, x + 1)
    ELSE <<>>

\* the inner loop over x, lines 187-193: the text appended for cells x..width-1
RECURSIVE QrCells(_, _, _)
QrCells(qrcode, y, x) ==
    IF x < qrcode.width
    THEN (IF qrcode.data[y * qrcode.width + x] % 2 = 1 THEN FmtDark ELSE FmtLight)
         \o QrCells(qrcode, y, x + 1)
    ELSE <<>>

\* the outer loop over y, lines 185-195: the text appended for rows y..width-1
RECURSIVE QrRows(_, _)
QrRows(qrcode, y) ==
    IF y < qrcode.width
    THEN FmtLight \o QrCells(qrcode, y, 0) \o FmtRowEnd \o QrRows(qrcode, y + 1)
    ELSE <<>>

\* the rasterizer part of qrencode (after QRcode_encodeString succeeded):
\* qrpic is the returned C string, alloc the size of the buffer, idx the
\* final value of idx (the terminating NUL is written at qrpic[idx])
QrRaster(qrcode) ==
    LET text == SprintfMargin(qrcode.width) \o QrRows(qrcode, 0)
                \o SprintfMargin(qrcode.width)
    IN  [called |-> TRUE, qrpic |-> text, alloc |-> QrAllocSize(qrcode.width), idx |-> Len(text)]

\* the QRcode structs the matrix generator may return for the bounds
QRcodes(maxw) ==
    UNION {[width : {w}, data : [0 .. (w * w - 1) -> ModuleValues]] : w \in 1..maxw}

----------------------------------------------------------------------------
(* parse_opts, lines 59-130, with getopt_long over optstr and long_options *)

NoStatus == -1

CMD_NONE == "CMD_NONE"
CMD_GENERATE == "CMD_GENERATE"
CMD_CALCULATE == "CMD_CALCULATE"
CMD_RESEAL == "CMD_RESEAL"
CMD_RECOVER == "CMD_RECOVER"
CMD_CLEAN == "CMD_CLEAN"

\* char *help (lines 22-30), kept as one unit of text
help == <<"Usage: [options] {generate|calculate|reseal|recover|clean} ...">>

\* the command lines tried (argv[1..]); words starting with "-" are options
ArgVectors ==
    { <<"generate">>, <<"calculate">>, <<"reseal">>, <<"recover">>, <<"clean">>,
      <<"-t", "calculate">>, <<"calculate", "--time">>, <<"-v", "clean">>,
      <<"-P", "pw", "reseal">>, <<"--password", "pw", "recover">>,
      <<>>, <<"-t">>, <<"bogus">>, <<"clean", "extra">>, <<"-x", "clean">>,
      <<"-h">>, <<"--help">>, <<"-P">>,
      <<"-N", "0x10", "generate">>, <<"--nvindex", "16", "calculate">>,
      <<"-N", "zz", "clean">> }

OptionWords == {"-h", "--help", "-N", "--nvindex", "-P", "--password",
                "-t", "--time", "-v", "--verbose", "-x"}

\* the options of optstr "N:P:tv" and long_options (lines 32-40) and the
\* character getopt_long returns for each; those with ':' take an argument
OptChar == [w \in {"-N", "--nvindex", "-P", "--password",
                   "-t", "--time", "-v", "--verbose"} |->
              CASE w \in {"-N", "--nvindex"} -> "N"
                [] w \in {"-P", "--password"} -> "P"
                [] w \in {"-t", "--time"} -> "t"
                [] OTHER -> "v"]
TakesArg == {"-N", "--nvindex", "-P", "--password"}

\* sscanf(optarg, "0x%x", ...) != 1 && sscanf(optarg, "%i", ...) != 1:
\* the numbers the words of ArgVectors parse to; other words do not parse
ScanNvindex == [w \in {"0x10", "16"} |-> 16]

OptDefault == [cmd |-> CMD_NONE, nvindex |-> 0, password |-> "NULL",
               time |-> 0, verbose |-> 0]

\* one call of getopt_long at word k: the character returned ("?" for an
\* unknown option or a missing argument, "-1" at the end), optarg, and the
\* number of words consumed; words that are not options are skipped
\* (getopt permutes them behind the options)
GetoptLong(av, k) ==
    IF k > Len(av) THEN [c |-> "-1", optarg |-> "", used |-> 0]
    ELSE LET w == av[k]
         IN  IF w \notin OptionWords THEN [c |-> "skip", optarg |-> "", used |-> 1]
             ELSE IF w \notin DOMAIN OptChar THEN [c |-> "?", optarg |-> "", used |-> 1]
             ELSE IF w \in TakesArg
                  THEN IF k = Len(av) THEN [c |-> "?", optarg |-> "", used |-> 1]
                       ELSE [c |-> OptChar[w], optarg |-> av[k + 1], used |-> 2]
             ELSE [c |-> OptChar[w], optarg |-> "", used |-> 1]

\* the while loop of lines 72-99: the result is the options, the words left
\* as non-option arguments, the exit status if exit was called, and stdout
RECURSIVE ParseLoop(_, _, _, _)
ParseLoop(av, k, o, rest) ==
    LET g == GetoptLong(av, k)
    IN  CASE g.c = "-1" -> [opt |-> o, rest |-> rest, exit |-> NoStatus, out |-> <<>>]
          [] g.c = "skip" -> ParseLoop(av, k + 1, o, Append(rest, av[k]))
          [] g.c = "h" -> [opt |-> o, rest |-> rest, exit |-> 0, out |-> help]
          [] g.c = "e" ->
                IF g.optarg \in DOMAIN ScanNvindex
                THEN ParseLoop(av, k + g.used,
                               [o EXCEPT !.nvindex = ScanNvindex[g.optarg]], rest)
                ELSE [opt |-> o, rest |-> rest, exit |-> 1, out |-> <<>>]
          [] g.c = "P" -> ParseLoop(av, k + g.used, [o EXCEPT !.password = g.optarg], rest)
          [] g.c = "t" -> ParseLoop(av, k + g.used, [o EXCEPT !.time = 1], rest)
          [] g.c = "v" -> ParseLoop(av, k + g.used, [o EXCEPT !.verbose = 1], rest)
          [] OTHER -> [opt |-> o, rest |-> rest, exit |-> 1, out |-> <<>>]

\* the strcmp chain of lines 107-121
CommandOf == [w \in {"generate", "calculate", "reseal", "recover", "clean"} |->
                CASE w = "generate" -> CMD_GENERATE
                  [] w = "calculate" -> CMD_CALCULATE
                  [] w = "reseal" -> CMD_RESEAL
                  [] w = "recover" -> CMD_RECOVER
                  [] OTHER -> CMD_CLEAN]

\* parse_opts: exit is NoStatus when the function returns 0
parse_opts(av) ==
    LET l == ParseLoop(av, 1, OptDefault, <<>>)
    IN  IF l.exit # NoStatus THEN l
        ELSE IF Len(l.rest) = 0 THEN [l EXCEPT !.exit = 1]
        ELSE IF l.rest[1] \notin DOMAIN CommandOf THEN [l EXCEPT !.exit = 1]
        ELSE IF Len(l.rest) > 1
             THEN [l EXCEPT !.opt.cmd = CommandOf[l.rest[1]], !.exit = 1]
        ELSE [l EXCEPT !.opt.cmd = CommandOf[l.rest[1]]]

----------------------------------------------------------------------------
(* The secure-storage library tpm2totp and the TPM NV slots behind it *)

NvIndices == {0, 16}
Empty == <<>>

\* the secrets generateKey may produce
Secrets == {<<0, 0, 0, 0, 0>>, <<255, 90>>}
\* a sealed blob: the secret it seals and how often it was resealed
SealedBlob(secret, ver) == <<secret, ver>>

\* tpm2totp_generateKey: the (secret, keyBlob) pairs a successful call returns
GenerateKeyResults == {[secret |-> sec, keyBlob |-> SealedBlob(sec, 0)] : sec \in Secrets}
\* tpm2totp_reseal: the new blob of a successful call
ResealBlob(blob) == SealedBlob(blob[1], blob[2] + 1)
\* tpm2totp_getSecret: the secret of a successful call
UnsealBlob(blob) == blob[1]
\* tpm2totp_calculate: the (now, totp) pairs a successful call returns
Times == {1514764800}
Codes == {0, 42, 123456, 999999}

\* the results (TRUE = TSS2_RC_SUCCESS) the NV calls can have: store fails on
\* an occupied index, load and delete fail on an unoccupied one, and any of
\* them may fail for a reason of the TPM's own
StoreOutcomes(slots, index) == IF slots[index] # Empty THEN {FALSE} ELSE {TRUE, FALSE}
LoadOutcomes(slots, index) == IF slots[index] = Empty THEN {FALSE} ELSE {TRUE, FALSE}
DeleteOutcomes(slots, index) == IF slots[index] = Empty THEN {FALSE} ELSE {TRUE, FALSE}
\* the effect of a successful store and delete; a failed call changes nothing
NvStore(slots, index, blob) == [slots EXCEPT ![index] = blob]
NvDelete(slots, index) == [slots EXCEPT ![index] = Empty]

\* the QRcode structs QRcode_encodeString returns to main
MainQRcodes == {[width |-> 1, data |-> [k \in {0} |-> 1]],
                [width |-> 1, data |-> [k \in {0} |-> 2]]}

----------------------------------------------------------------------------
(* main, lines 213-312 *)

BufNames == {"secret", "keyBlob", "newBlob", "base32key", "url", "qrpic"}
MemInit == [b \in BufNames |-> "unset"]
ValInit == [secret |-> <<>>, keyBlob |-> Empty, newBlob |-> Empty,
            base32key |-> <<>>, url |-> <<>>, qrpic |-> <<>>,
            totp |-> 0, now |-> 0, timestr |-> <<>>]

\* #define URL_PREFIX "otpauth://totp/TPM2-TOTP?secret="  (line 202)
URL_PREFIX == <<"o","t","p","a","u","t","h",":","/","/","t","o","t","p","/",
                "T","P","M","2","-","T","O","T","P","?","s","e","c","r","e","t","=">>

DigitChars == <<"0","1","2","3","4","5","6","7","8","9">>
\* the decimal digits of n
RECURSIVE Decimal(_)
Decimal(n) == IF n < 10 THEN <<DigitChars[n + 1]>>
              ELSE Append(Decimal(n \div 10), DigitChars[(n % 10) + 1])
\* %ld in place of %06ld: no zero padding
Printf06ld_NoPad(n) == Decimal(n)

\* printf's %06ld
Printf06ld(n) ==
    LET d == Decimal(n)
    IN  [k \in 1..(IF Len(d) < 6 THEN 6 - Len(d) ELSE 0) |-> "0"] \o d
\* strftime(timestr, 99, "%Y-%m-%d %H:%M:%S: ", localtime(&now)) in UTC
Strftime == [t \in Times |->
    <<"2","0","1","8","-","0","1","-","0","1"," ","0","0",":","0","0",":","0","0",":"," ">>]

Call(name, ok) == [name |-> name, ok |-> ok]

\* exit(status), or return from main
Exit(status) == pc' = "exited" /\ exitStatus' = status

\* the first statement of each case of switch(opt.cmd), line 227
FirstLabel == [c \in {CMD_GENERATE, CMD_CALCULATE, CMD_RESEAL, CMD_RECOVER, CMD_CLEAN} |->
                 CASE c = CMD_GENERATE -> "gen_generateKey"
                   [] c = CMD_CALCULATE -> "calc_load"
                   [] c = CMD_RESEAL -> "res_load"
                   [] c = CMD_RECOVER -> "rec_load"
                   [] OTHER -> "clean_delete"]

\* a process is started: main calls parse_opts (line 216) and reaches the switch
Start(av) ==
    /\ pc \in {"idle", "exited"}
    /\ runs < MaxRuns
    /\ LET p == parse_opts(av)
       IN  /\ opt' = p.opt
           /\ stdout' = p.out
           /\ IF p.exit # NoStatus THEN Exit(p.exit)
              ELSE IF p.opt.cmd \in DOMAIN FirstLabel
                   THEN pc' = FirstLabel[p.opt.cmd] /\ exitStatus' = NoStatus
              ELSE Exit(1)
    /\ argv' = av
    /\ runs' = runs + 1
    /\ nvAtStart' = nv
    /\ calls' = <<>>
    /\ mem' = MemInit
    /\ val' = ValInit
    /\ faults' = {}
    /\ UNCHANGED <<nv, b32Vars, qrVars>>

\* chkrc without its exit: the process goes on whatever rc is
chkrc_NoExit(ok, next) ==
    pc' = next /\ UNCHANGED exitStatus

\* the chkrc macro (lines 19-20) with cmd = exit(1): the process goes on to
\* next when rc is TSS2_RC_SUCCESS
chkrc(ok, next) ==
    IF ok THEN pc' = next /\ UNCHANGED exitStatus ELSE Exit(1)

\* the misuses of a step that reads or passes on the buffers in used and
\* frees those in freed: a buffer that is not live then is either not yet
\* produced or already freed
MemFaults(m, used, freed) ==
    {<<"use", b>> : b \in {u \in used : m[u] # "live"}}
    \cup {<<"free", b>> : b \in {f \in freed : m[f] # "live"}}

\* free(b) for each b in bufs
Free(m, bufs) == [b \in BufNames |-> IF b \in bufs THEN "freed" ELSE m[b]]
\* each b in bufs now points to a buffer the callee or malloc handed out
Own(m, bufs) == [b \in BufNames |-> IF b \in bufs THEN "live" ELSE m[b]]

\* ---- CMD_GENERATE, lines 228-249 ----

\* lines 229-232
GenGenerateKey ==
    /\ pc = "gen_generateKey"
    /\ \E ok \in BOOLEAN, g \in GenerateKeyResults :
          /\ calls' = Append(calls, Call("generateKey", ok))
          /\ val' = IF ok THEN [val EXCEPT !.secret = g.secret, !.keyBlob = g.keyBlob]
                    ELSE val
          /\ mem' = IF ok THEN Own(mem, {"secret", "keyBlob"}) ELSE mem
          /\ chkrc(ok, "gen_storeKey")
    /\ UNCHANGED <<nv, nvAtStart, runs, argv, opt, stdout, faults, b32Vars, qrVars>>

\* the store of Generate without the chkrc of line 236
GenStoreKey_NoCheck ==
    /\ pc = "gen_storeKey"
    /\ \E ok \in StoreOutcomes(nv, opt.nvindex) :
          /\ calls' = Append(calls, Call("storeKey_nv", ok))
          /\ nv' = IF ok THEN NvStore(nv, opt.nvindex, val.keyBlob) ELSE nv
          /\ mem' = Free(mem, {"keyBlob"})
          /\ faults' = faults \cup MemFaults(mem, {"keyBlob"}, {"keyBlob"})
          /\ pc' = "gen_encode"
    /\ UNCHANGED <<nvAtStart, runs, argv, opt, stdout, exitStatus, val, b32Vars, qrVars>>

\* Generate deleting the entry before the store, as Reseal does
GenStoreKey_Overwrite ==
    /\ pc = "gen_storeKey"
    /\ \E ok \in BOOLEAN :
          /\ calls' = Append(Append(calls, Call("deleteKey_nv", nv[opt.nvindex] # Empty)),
                             Call("storeKey_nv", ok))
          /\ nv' = IF ok THEN NvStore(nv, opt.nvindex, val.keyBlob)
                   ELSE NvDelete(nv, opt.nvindex)
          /\ mem' = Free(mem, {"keyBlob"})
          /\ faults' = faults \cup MemFaults(mem, {"keyBlob"}, {"keyBlob"})
          /\ chkrc(ok, "gen_encode")
    /\ UNCHANGED <<nvAtStart, runs, argv, opt, stdout, val, b32Vars, qrVars>>

\* lines 234-236
GenStoreKey ==
    /\ pc = "gen_storeKey"
    /\ \E ok \in StoreOutcomes(nv, opt.nvindex) :
          /\ calls' = Append(calls, Call("storeKey_nv", ok))
          /\ nv' = IF ok THEN NvStore(nv, opt.nvindex, val.keyBlob) ELSE nv
          /\ mem' = Free(mem, {"keyBlob"})
          /\ faults' = faults \cup MemFaults(mem, {"keyBlob"}, {"keyBlob"})
          /\ chkrc(ok, "gen_encode")
    /\ UNCHANGED <<nvAtStart, runs, argv, opt, stdout, val, b32Vars, qrVars>>

\* lines 238-241 (and 290-293): the secret is encoded and the URL built
EncodeUrl(next) ==
    /\ \E oob \in ByteAlphabet :
          LET e == base32enc(val.secret, Len(val.secret), oob)
          IN  val' = [val EXCEPT !.base32key = e.text, !.url = URL_PREFIX \o e.text]
    /\ mem' = Free(Own(mem, {"url"}), {"base32key"})
    /\ faults' = faults \cup MemFaults(Own(mem, {"base32key", "url"}), {"secret", "base32key", "url"}, {"base32key"})
    /\ calls' = Append(calls, Call("base32enc", TRUE))
    /\ pc' = next
    /\ UNCHANGED <<nv, nvAtStart, runs, argv, opt, stdout, exitStatus, b32Vars, qrVars>>

\* line 243 (and 295) with qrencode, lines 172-199: QRcode_encodeString
\* fails (exit(1) at line 174) or returns a QRcode, which is rasterized
QrencodeUrl(next) ==
    /\ \E ok \in BOOLEAN, qrcode \in MainQRcodes :
          /\ calls' = Append(calls, Call("QRcode_encodeString", ok))
          /\ val' = IF ok THEN [val EXCEPT !.qrpic = QrRaster(qrcode).qrpic] ELSE val
          /\ mem' = IF ok THEN Own(mem, {"qrpic"}) ELSE mem
          /\ faults' = faults \cup MemFaults(mem, {"url"}, {})
          /\ IF ok THEN pc' = next /\ UNCHANGED exitStatus ELSE Exit(1)
    /\ UNCHANGED <<nv, nvAtStart, runs, argv, opt, stdout, b32Vars, qrVars>>

\* lines 245-249 (and 297-301) and return 0 (line 311)
PrintEnrollment ==
    /\ stdout' = stdout \o val.qrpic \o <<"\n">> \o val.url \o <<"\n">>
    /\ mem' = Free(mem, {"qrpic", "url"})
    /\ faults' = faults \cup MemFaults(mem, {"qrpic", "url"}, {"qrpic", "url"})
    /\ Exit(0)
    /\ UNCHANGED <<nv, nvAtStart, runs, argv, opt, calls, val, b32Vars, qrVars>>

GenEncode == pc = "gen_encode" /\ EncodeUrl("gen_qrencode")
GenQrencode == pc = "gen_qrencode" /\ QrencodeUrl("gen_print")
GenPrint == pc = "gen_print" /\ PrintEnrollment

\* ---- CMD_CALCULATE, lines 250-263 ----

\* tpm2totp_loadKey_nv and its chkrc (lines 251-252, 265-266, 282-283)
LoadKey(next) ==
    /\ \E ok \in LoadOutcomes(nv, opt.nvindex) :
          /\ calls' = Append(calls, Call("loadKey_nv", ok))
          /\ val' = IF ok THEN [val EXCEPT !.keyBlob = nv[opt.nvindex]] ELSE val
          /\ mem' = IF ok THEN Own(mem, {"keyBlob"}) ELSE mem
          /\ chkrc(ok, next)
    /\ UNCHANGED <<nv, nvAtStart, runs, argv, opt, stdout, faults, b32Vars, qrVars>>

CalcLoad == pc = "calc_load" /\ LoadKey("calc_calculate")

\* lines 254-256
CalcCalculate ==
    /\ pc = "calc_calculate"
    /\ \E ok \in BOOLEAN, now \in Times, totp \in Codes :
          /\ calls' = Append(calls, Call("calculate", ok))
          /\ val' = IF ok THEN [val EXCEPT !.now = now, !.totp = totp] ELSE val
          /\ mem' = Free(mem, {"keyBlob"})
          /\ faults' = faults \cup MemFaults(mem, {"keyBlob"}, {"keyBlob"})
          /\ chkrc(ok, "calc_print")
    /\ UNCHANGED <<nv, nvAtStart, runs, argv, opt, stdout, b32Vars, qrVars>>

\* lines 257-263 and return 0: strftime returns 0 (fmt = FALSE) or the
\* length of the text
CalcPrint ==
    /\ pc = "calc_print"
    /\ \E fmt \in (IF opt.time # 0 THEN BOOLEAN ELSE {TRUE}) :
          IF opt.time # 0 /\ ~fmt
          THEN /\ Exit(1)
               /\ UNCHANGED <<stdout, val>>
          ELSE LET timestr == IF opt.time # 0 THEN Strftime[val.now] ELSE <<>>
               IN  /\ val' = [val EXCEPT !.timestr = timestr]
                   /\ stdout' = stdout \o timestr \o Printf06ld(val.totp)
                   /\ Exit(0)
    /\ UNCHANGED <<nv, nvAtStart, runs, argv, opt, calls, mem, faults, b32Vars, qrVars>>

\* ---- CMD_RESEAL, lines 264-280 ----

ResLoad == pc = "res_load" /\ LoadKey("res_reseal")

\* lines 268-271
ResReseal ==
    /\ pc = "res_reseal"
    /\ \E ok \in BOOLEAN :
          /\ calls' = Append(calls, Call("reseal", ok))
          /\ val' = IF ok THEN [val EXCEPT !.newBlob = ResealBlob(val.keyBlob)] ELSE val
          /\ mem' = Free(IF ok THEN Own(mem, {"newBlob"}) ELSE mem, {"keyBlob"})
          /\ faults' = faults \cup MemFaults(mem, {"keyBlob"}, {"keyBlob"})
          /\ chkrc(ok, "res_delete")
    /\ UNCHANGED <<nv, nvAtStart, runs, argv, opt, stdout, b32Vars, qrVars>>

\* the delete of Reseal without the chkrc of line 275
DeleteKey_NoCheck(next) ==
    /\ \E ok \in DeleteOutcomes(nv, opt.nvindex) :
          /\ calls' = Append(calls, Call("deleteKey_nv", ok))
          /\ nv' = IF ok THEN NvDelete(nv, opt.nvindex) ELSE nv
          /\ pc' = next
    /\ UNCHANGED <<nvAtStart, runs, argv, opt, stdout, exitStatus, mem, val, faults, b32Vars, qrVars>>

\* tpm2totp_deleteKey_nv and its chkrc in Reseal (lines 274-275)
DeleteKey(next) ==
    /\ \E ok \in DeleteOutcomes(nv, opt.nvindex) :
          /\ calls' = Append(calls, Call("deleteKey_nv", ok))
          /\ nv' = IF ok THEN NvDelete(nv, opt.nvindex) ELSE nv
          /\ chkrc(ok, next)
    /\ UNCHANGED <<nvAtStart, runs, argv, opt, stdout, mem, val, faults, b32Vars, qrVars>>

ResDelete == pc = "res_delete" /\ DeleteKey("res_store")

\* the store of Reseal without the chkrc of line 279: main returns 0
ResStore_NoCheck ==
    /\ pc = "res_store"
    /\ \E ok \in StoreOutcomes(nv, opt.nvindex) :
          /\ calls' = Append(calls, Call("storeKey_nv", ok))
          /\ nv' = IF ok THEN NvStore(nv, opt.nvindex, val.newBlob) ELSE nv
          /\ mem' = Free(mem, {"newBlob"})
          /\ faults' = faults \cup MemFaults(mem, {"newBlob"}, {"newBlob"})
          /\ Exit(0)
    /\ UNCHANGED <<nvAtStart, runs, argv, opt, stdout, val, b32Vars, qrVars>>

\* the store of Reseal with free(keyBlob) in place of free(newBlob)
ResStore_FreeKeyBlob ==
    /\ pc = "res_store"
    /\ \E ok \in StoreOutcomes(nv, opt.nvindex) :
          /\ calls' = Append(calls, Call("storeKey_nv", ok))
          /\ nv' = IF ok THEN NvStore(nv, opt.nvindex, val.newBlob) ELSE nv
          /\ mem' = Free(mem, {"keyBlob"})
          /\ faults' = faults \cup MemFaults(mem, {"newBlob"}, {"keyBlob"})
          /\ IF ok THEN Exit(0) ELSE Exit(1)
    /\ UNCHANGED <<nvAtStart, runs, argv, opt, stdout, val, b32Vars, qrVars>>

\* lines 277-280 and return 0
ResStore ==
    /\ pc = "res_store"
    /\ \E ok \in StoreOutcomes(nv, opt.nvindex) :
          /\ calls' = Append(calls, Call("storeKey_nv", ok))
          /\ nv' = IF ok THEN NvStore(nv, opt.nvindex, val.newBlob) ELSE nv
          /\ mem' = Free(mem, {"newBlob"})
          /\ faults' = faults \cup MemFaults(mem, {"newBlob"}, {"newBlob"})
          /\ IF ok THEN Exit(0) ELSE Exit(1)
    /\ UNCHANGED <<nvAtStart, runs, argv, opt, stdout, val, b32Vars, qrVars>>

\* ---- CMD_RECOVER, lines 281-301 ----

RecLoad == pc = "rec_load" /\ LoadKey("rec_getSecret")

\* Recover deleting the entry once the secret is unsealed
RecGetSecret_Delete ==
    /\ pc = "rec_getSecret"
    /\ \E ok \in BOOLEAN :
          /\ calls' = IF ok THEN Append(Append(calls, Call("getSecret", ok)),
                                        Call("deleteKey_nv", TRUE))
                      ELSE Append(calls, Call("getSecret", ok))
          /\ nv' = IF ok THEN NvDelete(nv, opt.nvindex) ELSE nv
          /\ val' = IF ok THEN [val EXCEPT !.secret = UnsealBlob(val.keyBlob)] ELSE val
          /\ mem' = Free(IF ok THEN Own(mem, {"secret"}) ELSE mem, {"keyBlob"})
          /\ faults' = faults \cup MemFaults(mem, {"keyBlob"}, {"keyBlob"})
          /\ chkrc(ok, "rec_encode")
    /\ UNCHANGED <<nvAtStart, runs, argv, opt, stdout, b32Vars, qrVars>>

\* lines 285-288
RecGetSecret ==
    /\ pc = "rec_getSecret"
    /\ \E ok \in BOOLEAN :
          /\ calls' = Append(calls, Call("getSecret", ok))
          /\ val' = IF ok THEN [val EXCEPT !.secret = UnsealBlob(val.keyBlob)] ELSE val
          /\ mem' = Free(IF ok THEN Own(mem, {"secret"}) ELSE mem, {"keyBlob"})
          /\ faults' = faults \cup MemFaults(mem, {"keyBlob"}, {"keyBlob"})
          /\ chkrc(ok, "rec_encode")
    /\ UNCHANGED <<nv, nvAtStart, runs, argv, opt, stdout, b32Vars, qrVars>>

RecEncode == pc = "rec_encode" /\ EncodeUrl("rec_qrencode")
RecQrencode == pc = "rec_qrencode" /\ QrencodeUrl("rec_print")
RecPrint == pc = "rec_print" /\ PrintEnrollment

\* ---- CMD_CLEAN, lines 302-306 ----

\* lines 304-306 and return 0
CleanDelete ==
    /\ pc = "clean_delete"
    /\ \E ok \in DeleteOutcomes(nv, opt.nvindex) :
          /\ calls' = Append(calls, Call("deleteKey_nv", ok))
          /\ nv' = IF ok THEN NvDelete(nv, opt.nvindex) ELSE nv
          /\ IF ok THEN Exit(0) ELSE Exit(1)
    /\ UNCHANGED <<nvAtStart, runs, argv, opt, stdout, mem, val, faults, b32Vars, qrVars>>

----------------------------------------------------------------------------
(* Specifications *)

B32OutInit == [text |-> <<>>, out_size |-> 0, alloc |-> 0, rd |-> {}, wr |-> {},
               called |-> FALSE]
QrOutInit == [qrpic |-> <<>>, alloc |-> 0, idx |-> 0, called |-> FALSE]
QrInInit == [width |-> 1, data |-> [k \in {0} |-> 0]]

MainInit ==
    /\ nv = [n \in NvIndices |-> Empty]
    /\ nvAtStart = [n \in NvIndices |-> Empty]
    /\ runs = 0
    /\ pc = "idle"
    /\ argv = <<>>
    /\ opt = OptDefault
    /\ calls = <<>>
    /\ stdout = <<>>
    /\ exitStatus = NoStatus
    /\ mem = MemInit
    /\ val = ValInit
    /\ faults = {}

\* the tool is run MaxRuns times, one process after the other
Init ==
    /\ MainInit
    /\ b32_in = <<>>
    /\ b32_out = B32OutInit
    /\ qr_in = QrInInit
    /\ qr_out = QrOutInit

Next ==
    \/ \E av \in ArgVectors : Start(av)
    \/ GenGenerateKey \/ GenStoreKey \/ GenEncode \/ GenQrencode \/ GenPrint
    \/ CalcLoad \/ CalcCalculate \/ CalcPrint
    \/ ResLoad \/ ResReseal \/ ResDelete \/ ResStore
    \/ RecLoad \/ RecGetSecret \/ RecEncode \/ RecQrencode \/ RecPrint
    \/ CleanDelete

Spec == Init /\ [][Next]_vars

\* base32enc is called once on an input of at most MaxLen bytes
B32Call ==
    /\ ~b32_out.called
    /\ \E oob \in ByteAlphabet :
          b32_out' = base32enc(b32_in, Len(b32_in), oob)
    /\ UNCHANGED <<b32_in, mainVars, qrVars>>

B32Init ==
    /\ MainInit
    /\ b32_in \in SeqsUpTo(ByteAlphabet, MaxLen)
    /\ b32_out = B32OutInit
    /\ qr_in = QrInInit
    /\ qr_out = QrOutInit

B32Next == B32Call

SpecB32 == B32Init /\ [][B32Next]_vars

\* the rasterizer is called once on a QRcode of width at most MaxWidth
QrCall ==
    /\ ~qr_out.called
    /\ qr_out' = QrRaster(qr_in)
    /\ UNCHANGED <<qr_in, mainVars, b32Vars>>

QrInit ==
    /\ MainInit
    /\ b32_in = <<>>
    /\ b32_out = B32OutInit
    /\ qr_in \in QRcodes(MaxWidth)
    /\ qr_out = QrOutInit

QrNext == QrCall

SpecQR == QrInit /\ [][QrNext]_vars

----------------------------------------------------------------------------
(* Properties of base32enc, checked under SpecB32 *)

CeilDiv(n, d) == IF n % d = 0 THEN n \div d ELSE n \div d + 1

\* RFC 4648 base32, written from the RFC: the bits of the input, most
\* significant first, zero-filled to a multiple of 5, in groups of 5
RECURSIVE ByteBits(_, _)
ByteBits(x, n) == IF n = 0 THEN <<>> ELSE Append(ByteBits(x \div 2, n - 1), x % 2)
RECURSIVE BitsOf(_)
BitsOf(bytes) == IF bytes = <<>> THEN <<>> ELSE ByteBits(Head(bytes), 8) \o BitsOf(Tail(bytes))
RECURSIVE BitsValue(_)
BitsValue(bits) == IF bits = <<>> THEN 0
                   ELSE 2 * BitsValue(SubSeq(bits, 1, Len(bits) - 1)) + bits[Len(bits)]
Rfc4648Encode(bytes) ==
    LET bits == BitsOf(bytes)
        nsym == CeilDiv(Len(bits), 5)
        filled == bits \o [k \in 1..(5 * nsym - Len(bits)) |-> 0]
        syms == [k \in 1..nsym |-> base32[BitsValue(SubSeq(filled, 5 * k - 4, 5 * k)) + 1]]
    IN  syms \o [k \in 1..(8 * CeilDiv(nsym, 8) - nsym) |-> "="]
\* the reference decoder: the symbols before the padding give 5 bits each,
\* every full 8 bits give a byte, the remaining bits are dropped
Rfc4648Decode(text) ==
    LET syms == SelectSeq(text, LAMBDA c : c # "=")
        index(c) == CHOOSE k \in 1..32 : base32[k] = c
        RECURSIVE SymBits(_)
        SymBits(ss) == IF ss = <<>> THEN <<>>
                       ELSE ByteBits(index(Head(ss)) - 1, 5) \o SymBits(Tail(ss))
        bits == SymBits(syms)
    IN  [k \in 1..(Len(bits) \div 8) |-> BitsValue(SubSeq(bits, 8 * k - 7, 8 * k))]

PadCount(text) == Len(SelectSeq(text, LAMBDA c : c = "="))

\* C5: for every byte sequence of length 0..MaxLen the text base32enc returns
\* has length ceil(len/5)*8, and for the empty sequence it is the empty string.
C5_LengthAndEmpty ==
    b32_out.called =>
        /\ Len(b32_out.text) = CeilDiv(Len(b32_in), 5) * 8
        /\ (b32_in = <<>> => b32_out.text = <<>>)

\* C6: for every non-empty byte sequence base32enc returns its RFC 4648
\* base32 encoding, and the reference decoder yields the input back.
C6_Rfc4648 ==
    (b32_out.called /\ Len(b32_in) >= 1) =>
        /\ b32_out.text = Rfc4648Encode(b32_in)
        /\ Rfc4648Decode(b32_out.text) = b32_in

C6_Witness ==
    /\ b32_out.called
    /\ b32_in = <<255, 90>>
    /\ b32_out.text = <<"7", "5", "N", "A", "=", "=", "=", "=">>

\* C7 as stated: the number of '=' in the result is 0, 1, 3, 4, 6 when
\* len mod 5 is 0, 1, 2, 3, 4 (non-empty input).
C7_PaddingAsClaimed ==
    (b32_out.called /\ Len(b32_in) >= 1) =>
        PadCount(b32_out.text) = <<0, 1, 3, 4, 6>>[(Len(b32_in) % 5) + 1]

\* C7 amended: the number of '=' in the result is 0, 6, 4, 3, 1 when
\* len mod 5 is 0, 1, 2, 3, 4 (non-empty input).
C7_Padding ==
    (b32_out.called /\ Len(b32_in) >= 1) =>
        PadCount(b32_out.text) = <<0, 6, 4, 3, 1>>[(Len(b32_in) % 5) + 1]

C7_Witness ==
    /\ b32_out.called
    /\ Len(b32_in) = 4
    /\ PadCount(b32_out.text) = 1

----------------------------------------------------------------------------
(* Properties of the rasterizer, checked under SpecQR *)

\* the rows of a text: the pieces ended by a line feed, without the line feed
RECURSIVE RowsOf(_)
RowsOf(t) ==
    IF t = <<>> THEN <<>>
    ELSE LET k == CHOOSE m \in 1..(Len(t) + 1) :
                     /\ m = Len(t) + 1 \/ t[m] = "\n"
                     /\ \A n \in 1..(m - 1) : t[n] # "\n"
         IN  IF k > Len(t) THEN <<>>
             ELSE <<SubSeq(t, 1, k - 1)>> \o RowsOf(SubSeq(t, k + 1, Len(t)))

BlankCount(row) == Len(SelectSeq(row, LAMBDA c : c = " "))
ColourSet(d) == <<"ESC", "[", "4", d, "m">>
ColourReset == <<"ESC", "[", "0", "m">>
\* the k-th 7-character piece of a row, k from 0
Piece(row, k) == SubSeq(row, 7 * k + 1, 7 * k + 7)
IsBlock(piece) ==
    \E d \in {"0", "7"} : piece = ColourSet(d) \o <<" ", " ">>
\* a data row: w+2 blocks and the colour reset
IsDataRow(row, w) ==
    /\ Len(row) = 7 * (w + 2) + 4
    /\ \A k \in 0..(w + 1) : IsBlock(Piece(row, k))
    /\ SubSeq(row, 7 * (w + 2) + 1, Len(row)) = ColourReset
\* a margin row: one colour, 2*(w+2) blanks and the colour reset
IsMarginRow(row, w) ==
    /\ Len(row) = 5 + 2 * (w + 2) + 4
    /\ \E d \in {"0", "7"} : SubSeq(row, 1, 5) = ColourSet(d)
    /\ \A k \in 6..(5 + 2 * (w + 2)) : row[k] = " "
    /\ SubSeq(row, Len(row) - 3, Len(row)) = ColourReset

\* C8: the bytes the rasterizer writes, the terminating NUL included, never
\* exceed the bytes it allocated for the width.
C8_NoOverflow ==
    qr_out.called => qr_out.idx + 1 <= qr_out.alloc

C8_Witness ==
    /\ qr_out.called
    /\ qr_in.width = 2
    /\ qr_out.idx = 102
    /\ qr_out.alloc = 105

\* C9: the output has exactly w+2 rows, each ended by a line feed: a margin
\* row of 2*(w+2) blanks, w data rows of w+2 two-character blocks, a margin
\* row; all rows have the same visible width.
C9_Rows ==
    qr_out.called =>
        LET w == qr_in.width
            rows == RowsOf(qr_out.qrpic)
        IN  /\ qr_out.qrpic[Len(qr_out.qrpic)] = "\n"
            /\ Len(rows) = w + 2
            /\ IsMarginRow(rows[1], w)
            /\ IsMarginRow(rows[w + 2], w)
            /\ \A y \in 2..(w + 1) : IsDataRow(rows[y], w)
            /\ \A y \in 1..(w + 2) : BlankCount(rows[y]) = 2 * (w + 2)

C9_Witness ==
    /\ qr_out.called
    /\ qr_in.width = 2
    /\ Len(RowsOf(qr_out.qrpic)) = 4
    /\ BlankCount(RowsOf(qr_out.qrpic)[1]) = 8
    /\ BlankCount(RowsOf(qr_out.qrpic)[2]) = 8

\* C10: the block of cell (x, y) is dark exactly when the low bit of
\* data[y*w + x] is set; the margin blocks and margin rows are light; every
\* row begins by setting the light background and ends with the colour reset
\* right before its line feed.
C10_Colours ==
    qr_out.called =>
        LET w == qr_in.width
            rows == RowsOf(qr_out.qrpic)
        IN  /\ Len(rows) = w + 2
            /\ \A r \in 1..(w + 2) :
                  /\ SubSeq(rows[r], 1, 5) = ColourSet("7")
                  /\ SubSeq(rows[r], Len(rows[r]) - 3, Len(rows[r])) = ColourReset
            /\ \A r \in {1, w + 2} :
                  \A k \in 6..(Len(rows[r]) - 4) : rows[r][k] = " "
            /\ \A y \in 0..(w - 1) :
                  /\ Piece(rows[y + 2], 0) = FmtLight
                  /\ Piece(rows[y + 2], w + 1) = FmtLight
                  /\ \A x \in 0..(w - 1) :
                        Piece(rows[y + 2], x + 1) =
                            IF qr_in.data[y * w + x] % 2 = 1 THEN FmtDark ELSE FmtLight

C10_Witness ==
    /\ qr_out.called
    /\ qr_in.width = 2
    /\ qr_in.data = [k \in 0..3 |-> k]
    /\ Piece(RowsOf(qr_out.qrpic)[2], 2) = FmtDark
    /\ Piece(RowsOf(qr_out.qrpic)[3], 1) = FmtLight
    /\ Piece(RowsOf(qr_out.qrpic)[3], 2) = FmtDark

----------------------------------------------------------------------------
(* Properties of main, checked under Spec *)

StorageNames == {"generateKey", "storeKey_nv", "loadKey_nv", "calculate",
                 "reseal", "deleteKey_nv", "getSecret"}
\* the calls of the running process into the secure-storage library
StorageCalls == SelectSeq(calls, LAMBDA c : c.name \in StorageNames)
\* the external calls: secure storage and the QR matrix generator
ExternalCalls ==
    SelectSeq(calls, LAMBDA c : c.name \in StorageNames \cup {"QRcode_encodeString"})
NamesOf(cs) == [k \in 1..Len(cs) |-> cs[k].name]
Min(a, b) == IF a < b THEN a ELSE b

ResealSequence == <<"loadKey_nv", "reseal", "deleteKey_nv", "storeKey_nv">>
CommandSequence ==
    [c \in {CMD_GENERATE, CMD_CALCULATE, CMD_RESEAL, CMD_RECOVER, CMD_CLEAN} |->
       CASE c = CMD_GENERATE -> <<"generateKey", "storeKey_nv", "QRcode_encodeString">>
         [] c = CMD_CALCULATE -> <<"loadKey_nv", "calculate">>
         [] c = CMD_RESEAL -> ResealSequence
         [] c = CMD_RECOVER -> <<"loadKey_nv", "getSecret", "QRcode_encodeString">>
         [] OTHER -> <<"deleteKey_nv">>]

\* C1: in every run of Reseal the secure-storage calls are a prefix of load,
\* reseal, delete, store, each at most once, and a call is issued only if
\* every earlier one succeeded; store is never called when delete fails.
C1_ResealOrder ==
    opt.cmd = CMD_RESEAL =>
        LET sc == StorageCalls
        IN  /\ Len(sc) <= 4
            /\ \A k \in 1..Len(sc) :
                  /\ sc[k].name = ResealSequence[k]
                  /\ k < Len(sc) => sc[k].ok

C1_Witness ==
    /\ opt.cmd = CMD_RESEAL
    /\ pc = "exited"
    /\ exitStatus = 0
    /\ calls = <<Call("loadKey_nv", TRUE), Call("reseal", TRUE),
                 Call("deleteKey_nv", TRUE), Call("storeKey_nv", TRUE)>>

\* C2: when a Reseal run started on an occupied slot has terminated, the slot
\* holds the old blob (load, reseal or delete failed), the new blob (all four
\* calls succeeded, exit 0) or nothing; it is empty exactly when delete
\* succeeded and the store after it failed, and then the exit status is 1 and
\* a load of the slot fails.
C2_ResealOutcome ==
    (pc = "exited" /\ opt.cmd = CMD_RESEAL /\ calls # <<>>
       /\ nvAtStart[opt.nvindex] # Empty) =>
        LET old == nvAtStart[opt.nvindex]
            new == ResealBlob(old)
            cur == nv[opt.nvindex]
            n == Len(calls)
        IN  /\ cur \in {old, new, Empty}
            /\ cur = old <=> \E k \in 1..Min(n, 3) : ~calls[k].ok
            /\ cur = new <=> (n = 4 /\ \A k \in 1..4 : calls[k].ok)
            /\ cur = new => exitStatus = 0
            /\ cur = Empty <=> (n = 4 /\ calls[3].ok /\ ~calls[4].ok)
            /\ cur = Empty => (exitStatus = 1 /\ LoadOutcomes(nv, opt.nvindex) = {FALSE})

C2_Witness ==
    /\ pc = "exited"
    /\ opt.cmd = CMD_RESEAL
    /\ nvAtStart[opt.nvindex] # Empty
    /\ nv[opt.nvindex] = Empty
    /\ exitStatus = 1
    /\ calls = <<Call("loadKey_nv", TRUE), Call("reseal", TRUE),
                 Call("deleteKey_nv", TRUE), Call("storeKey_nv", FALSE)>>

\* C3: in each of the five commands a failing external call makes the process
\* exit with status 1 without any further external call and with nothing on
\* stdout; the process exits with status 0 only when every call of the
\* command's sequence was made and succeeded.
C3_AbortOnFailure ==
    LET ec == ExternalCalls
    IN  /\ \A k \in 1..Len(ec) :
              ~ec[k].ok => (k = Len(ec) /\ pc = "exited" /\ exitStatus = 1
                            /\ stdout = <<>>)
        /\ (pc = "exited" /\ exitStatus = 0) =>
              /\ opt.cmd \in DOMAIN CommandSequence
              /\ NamesOf(ec) = CommandSequence[opt.cmd]
              /\ \A k \in 1..Len(ec) : ec[k].ok

C3_Witness ==
    /\ opt.cmd = CMD_CLEAN
    /\ pc = "exited"
    /\ exitStatus = 1
    /\ calls = <<Call("deleteKey_nv", FALSE)>>
    /\ stdout = <<>>

\* C4: Generate writes to stdout only after the store succeeded: when
\* generate-key succeeds and store fails the process exits 1 with nothing
\* printed, the NV slots unchanged and no encoding or rasterizing done; on
\* success stdout is the image, a blank line and the URL, each followed by a
\* line feed.
C4_GenerateOutput ==
    opt.cmd = CMD_GENERATE =>
        /\ stdout # <<>> => (Len(calls) >= 2 /\ calls[2] = Call("storeKey_nv", TRUE))
        /\ (Len(calls) >= 2 /\ calls[1].ok /\ ~calls[2].ok) =>
              /\ pc = "exited" /\ exitStatus = 1
              /\ stdout = <<>>
              /\ nv = nvAtStart
              /\ NamesOf(calls) = <<"generateKey", "storeKey_nv">>
        /\ (pc = "exited" /\ exitStatus = 0) =>
              LET rows == RowsOf(stdout)
                  image == RowsOf(val.qrpic)
                  n == Len(rows)
              IN  /\ stdout[Len(stdout)] = "\n"
                  /\ val.url = URL_PREFIX \o Rfc4648Encode(val.secret)
                  /\ Len(image) >= 3
                  /\ n = Len(image) + 2
                  /\ SubSeq(rows, 1, n - 2) = image
                  /\ rows[n - 1] = <<>>
                  /\ rows[n] = val.url

C4_Witness ==
    /\ opt.cmd = CMD_GENERATE
    /\ pc = "exited"
    /\ exitStatus = 1
    /\ calls = <<Call("generateKey", TRUE), Call("storeKey_nv", FALSE)>>
    /\ stdout = <<>>
    /\ nv = nvAtStart

\* a successful Generate and what it printed for the secret of five zero bytes
GenerateSuccess ==
    /\ opt.cmd = CMD_GENERATE
    /\ pc = "exited"
    /\ exitStatus = 0
    /\ val.secret = <<0, 0, 0, 0, 0>>
    /\ RowsOf(stdout)[5] = URL_PREFIX \o <<"A", "A", "A", "A", "A", "A", "A", "A">>

\* the value of a text of decimal digits
RECURSIVE DigitsValue(_)
DigitsValue(ds) ==
    IF ds = <<>> THEN 0
    ELSE 10 * DigitsValue(SubSeq(ds, 1, Len(ds) - 1))
         + (CHOOSE d \in 0..9 : DigitChars[d + 1] = ds[Len(ds)])
IsDigits(ds) == \A k \in 1..Len(ds) : \E d \in 1..10 : ds[k] = DigitChars[d]

\* C11: a successful Calculate writes a timestamp prefix, non-empty exactly
\* when opt.time is set, then the code as exactly 6 decimal digits with
\* leading zeros, and no line feed; its calls are load, then evaluate; a
\* Calculate that exits 1 (load, evaluate or strftime failed) prints nothing.
C11_CalculateOutput ==
    opt.cmd = CMD_CALCULATE =>
        /\ Len(calls) <= 2
        /\ \A k \in 1..Len(calls) : calls[k].name = <<"loadKey_nv", "calculate">>[k]
        /\ (pc = "exited" /\ exitStatus = 1) => stdout = <<>>
        /\ (pc = "exited" /\ exitStatus = 0) =>
              LET n == Len(stdout)
                  code == SubSeq(stdout, n - 5, n)
                  prefix == SubSeq(stdout, 1, n - 6)
              IN  /\ n >= 6
                  /\ NamesOf(calls) = <<"loadKey_nv", "calculate">>
                  /\ val.totp \in 0..999999
                  /\ IsDigits(code)
                  /\ DigitsValue(code) = val.totp
                  /\ prefix # <<>> <=> opt.time # 0
                  /\ \A k \in 1..n : stdout[k] # "\n"

C11_Witness ==
    /\ opt.cmd = CMD_CALCULATE
    /\ pc = "exited"
    /\ exitStatus = 0
    /\ opt.time = 1
    /\ val.totp = 42
    /\ stdout = Strftime[val.now] \o <<"0", "0", "0", "0", "4", "2">>

\* C12: an invocation with -h or --help prints the usage text and exits with
\* status 0 without any secure-storage call.
C12_HelpExitsZero ==
    (argv \in {<<"-h">>, <<"--help">>} /\ pc = "exited") =>
        /\ exitStatus = 0
        /\ stdout = help
        /\ StorageCalls = <<>>

\* C13: an invocation with -N/--nvindex and a well-formed hexadecimal or
\* decimal value, followed by a valid command, is accepted: opt.nvindex is
\* that value and the command's secure-storage calls are issued.
C13_NvindexAccepted ==
    (argv \in {<<"-N", "0x10", "generate">>, <<"--nvindex", "16", "calculate">>}
       /\ pc # "idle") =>
        /\ opt.nvindex = 16
        /\ opt.cmd = CommandOf[argv[3]]
        /\ pc = "exited" => StorageCalls # <<>>

\* the words of a command line that are neither options nor option values
RECURSIVE OperandsFrom(_, _)
OperandsFrom(av, k) ==
    IF k > Len(av) THEN <<>>
    ELSE IF av[k] \in TakesArg THEN OperandsFrom(av, k + 2)
    ELSE IF av[k] \in OptionWords THEN OperandsFrom(av, k + 1)
    ELSE <<av[k]>> \o OperandsFrom(av, k + 1)
Operands(av) == OperandsFrom(av, 1)
DocumentedFlags == {"-h", "--help", "-N", "--nvindex", "-P", "--password",
                    "-t", "--time", "-v", "--verbose"}
\* unknown flag, missing command, unrecognized command or extra argument
Rejected(av) ==
    \/ \E k \in 1..Len(av) : av[k] \in OptionWords \ DocumentedFlags
    \/ Operands(av) = <<>>
    \/ Operands(av)[1] \notin DOMAIN CommandOf
    \/ Len(Operands(av)) > 1
\* the invocations the dispatcher contract treats apart: help, and an index
\* that is missing or not a number
HelpOrBadIndex(av) ==
    \E k \in 1..Len(av) :
        \/ av[k] \in {"-h", "--help"}
        \/ av[k] \in {"-N", "--nvindex"}
             /\ (k = Len(av) \/ av[k + 1] \notin DOMAIN ScanNvindex)

IsPrefix(a, b) == Len(a) <= Len(b) /\ a = SubSeq(b, 1, Len(a))

\* C14: an invocation with an unknown flag, a missing command, an
\* unrecognized command or an extra argument exits 1 before any call and
\* with nothing on stdout; any other invocation (help and a malformed index
\* aside) selects exactly its command and performs only that command's calls.
C14_Dispatch ==
    pc # "idle" =>
        /\ Rejected(argv) =>
              (pc = "exited" /\ exitStatus = 1 /\ calls = <<>> /\ stdout = <<>>)
        /\ (~Rejected(argv) /\ ~HelpOrBadIndex(argv)) =>
              /\ opt.cmd = CommandOf[Operands(argv)[1]]
              /\ IsPrefix(NamesOf(ExternalCalls), CommandSequence[opt.cmd])
              /\ pc = "exited" => calls # <<>>

\* the part of C14 about rejected invocations, and the accepted invocations
\* without -N: these hold
C14_WithoutNvindex ==
    pc # "idle" =>
        /\ Rejected(argv) =>
              (pc = "exited" /\ exitStatus = 1 /\ calls = <<>> /\ stdout = <<>>)
        /\ (~Rejected(argv) /\ ~HelpOrBadIndex(argv)
              /\ \A k \in 1..Len(argv) : argv[k] \notin {"-N", "--nvindex"}) =>
              /\ opt.cmd = CommandOf[Operands(argv)[1]]
              /\ IsPrefix(NamesOf(ExternalCalls), CommandSequence[opt.cmd])
              /\ pc = "exited" => calls # <<>>

\* some external call of the running process failed
SomeCallFailed == \E k \in 1..Len(calls) : ~calls[k].ok

\* C15: when Generate or Recover has completed successfully every buffer
\* obtained during the run has been released: the sealed blob, the secret,
\* the base32 text, the URL and the image.
C15_AllReleased ==
    (opt.cmd \in {CMD_GENERATE, CMD_RECOVER} /\ pc = "exited" /\ exitStatus = 0) =>
        \A b \in BufNames : mem[b] # "live"

\* C16: when an external call has failed, every buffer the process owned at
\* that point has been released before it exits.
C16_ReleasedOnFailure ==
    (pc = "exited" /\ SomeCallFailed) =>
        \A b \in BufNames : mem[b] # "live"

\* C17: on every path of every command each buffer is released at most once,
\* is never read or passed on after its release, and is never read, passed on
\* or released before the call producing it has succeeded.
C17_NoMisuse == faults = {}

C17_Witness ==
    /\ opt.cmd = CMD_RESEAL
    /\ pc = "exited"
    /\ Len(calls) = 4
    /\ mem["keyBlob"] = "freed"
    /\ mem["newBlob"] = "freed"
    /\ faults = {}

\* C18: for every in_size >= 0 base32enc reads only in[0..in_size-1] and
\* writes only r[0..out_size] of its (out_size+1)-byte buffer, where
\* out_size = ceil(in_size/5)*8.
C18_InBounds ==
    b32_out.called =>
        /\ b32_out.out_size = CeilDiv(Len(b32_in), 5) * 8
        /\ b32_out.alloc = b32_out.out_size + 1
        /\ b32_out.rd \subseteq 0..(Len(b32_in) - 1)
        /\ b32_out.wr \subseteq 0..b32_out.out_size

\* C19: Calculate and Recover never change the NV slots and never call store
\* or delete: they call load, then evaluate (Calculate) or unseal (Recover);
\* the slots change only in Generate's store, Reseal's delete and store, and
\* Clean's delete.
C19_SlotFrame ==
    [][ /\ (opt.cmd \in {CMD_CALCULATE, CMD_RECOVER} /\ pc \notin {"idle", "exited"}) =>
              /\ nv' = nv
              /\ IsPrefix(NamesOf(SelectSeq(calls', LAMBDA c : c.name \in StorageNames)),
                          IF opt.cmd = CMD_CALCULATE THEN <<"loadKey_nv", "calculate">>
                          ELSE <<"loadKey_nv", "getSecret">>)
        /\ nv' # nv =>
              \/ opt.cmd = CMD_GENERATE /\ pc = "gen_storeKey"
              \/ opt.cmd = CMD_RESEAL /\ pc \in {"res_delete", "res_store"}
              \/ opt.cmd = CMD_CLEAN /\ pc = "clean_delete" ]_vars

C19_Witness ==
    /\ opt.cmd = CMD_RECOVER
    /\ pc = "exited"
    /\ exitStatus = 0
    /\ NamesOf(StorageCalls) = <<"loadKey_nv", "getSecret">>
    /\ nv[opt.nvindex] # Empty
    /\ nv = nvAtStart

\* C20: with a store that fails on an occupied index, no store on an occupied
\* slot succeeds: a Generate run on an occupied slot exits 1, leaves the blob
\* as it was and prints nothing, and a slot's blob is replaced by a different
\* blob only by a Reseal whose delete succeeded before its store.
C20_NoOverwrite ==
    /\ \A k \in 1..Len(calls) :
          calls[k] = Call("storeKey_nv", TRUE) =>
              \/ k = 2 /\ opt.cmd = CMD_GENERATE /\ nvAtStart[opt.nvindex] = Empty
              \/ k = 4 /\ opt.cmd = CMD_RESEAL /\ calls[3] = Call("deleteKey_nv", TRUE)
    /\ (opt.cmd = CMD_GENERATE /\ pc = "exited" /\ calls # <<>>
          /\ nvAtStart[opt.nvindex] # Empty) =>
              (exitStatus = 1 /\ nv = nvAtStart /\ stdout = <<>>)
    /\ \A i \in NvIndices :
          (nvAtStart[i] # Empty /\ nv[i] \notin {Empty, nvAtStart[i]}) =>
              /\ opt.cmd = CMD_RESEAL
              /\ Len(calls) = 4
              /\ calls[3] = Call("deleteKey_nv", TRUE)
              /\ calls[4] = Call("storeKey_nv", TRUE)

C20_Witness ==
    /\ opt.cmd = CMD_GENERATE
    /\ pc = "exited"
    /\ exitStatus = 1
    /\ nvAtStart[opt.nvindex] # Empty
    /\ nv = nvAtStart
    /\ stdout = <<>>
    /\ calls = <<Call("generateKey", TRUE), Call("storeKey_nv", FALSE)>>

====
